---- MODULE Spec2Model ----
(***************************************************************************)
(* A model of instructor/dsl/parallel.py: the schema registry              *)
(* (ParallelBase), its lazy decoder (ParallelBase.from_response, a Python  *)
(* generator) and the type-set extractor (get_types_array) with the two    *)
(* helpers built on it (handle_parallel_model, ParallelModel).             *)
(*                                                                         *)
(* A generator object is modelled by a record; one next() on it is one     *)
(* action (GenNext), which runs the generator body from where it was       *)
(* suspended up to the next yield, raise or return.                        *)
(***************************************************************************)
EXTENDS Integers, Sequences, FiniteSets, TLC

\* ------------------------------------------------------------------ bounds
\* The longest tool-call list of a response.
MaxCalls == 3
\* The largest number of models handed to ParallelBase(*models).
MaxModels == 2
\* The largest number of members written in a union.
MaxUnion == 2
\* The most next() calls a consumer makes on a generator that has finished
\* (by an error or by the end of the list) before it made them.
MaxAfterClose == 1

\* ------------------------------------------------------- candidate types
\* Three OpenAISchema classes.  WeatherA and WeatherB are two different
\* classes whose __name__ is the same ("Weather").
CandidateTypes == {"WeatherA", "WeatherB", "Stock"}

\* model.__name__
TypeName(model) == IF model = "Stock" THEN "Stock" ELSE "Weather"

\* Raw argument payloads (JSON texts) a tool call may carry.
\*   {city}     {"city": "Paris"}
\*   {qty:'5'}  {"qty": "5"}
Payloads == {"{city}", "{qty:'5'}"}

\* Values of the strict argument of from_response.
StrictValues == {"None", "True"}

\* Whether the payload satisfies the model's own validation rules:
\*   WeatherA: city: str
\*   WeatherB: qty: int     (a numeric string is coerced unless strict is True)
\*   Stock:    qty: int     (the same)
Accepts(model, arguments, strict) ==
    CASE model = "WeatherA" -> arguments = "{city}"
      [] model = "WeatherB" -> arguments = "{qty:'5'}" /\ strict # "True"
      [] model = "Stock" -> arguments = "{qty:'5'}" /\ strict # "True"

\* The instance a successful validation builds.
Instance(model, arguments) == [type |-> model, data |-> arguments]

\* A model that accepts every payload and builds a partly filled instance.
model_validate_json_lenient(model, arguments, strict) ==
    [ok |-> TRUE, value |-> Instance(model, arguments)]

\* model.model_validate_json(arguments, context=..., strict=strict): the
\* instance, or a ValidationError.
model_validate_json(model, arguments, strict) ==
    IF Accepts(model, arguments, strict)
    THEN [ok |-> TRUE, value |-> Instance(model, arguments)]
    ELSE [ok |-> FALSE, value |-> Instance(model, "ValidationError")]

\* ------------------------------------------------------------- registry
EmptyDict == [k \in {} |-> "WeatherA"]

\* d[k] = v on a dict.
DictSet(d, k, v) == [x \in DOMAIN d \cup {k} |-> IF x = k THEN v ELSE d[x]]

\* d.setdefault(k, v): keeps an entry that is already there.
DictSetDefault(d, k, v) == IF k \in DOMAIN d THEN d ELSE DictSet(d, k, v)

RECURSIVE RegistryFirstWins(_, _)
RegistryFirstWins(ms, n) ==
    IF n = 0 THEN EmptyDict
    ELSE DictSetDefault(RegistryFirstWins(ms, n - 1), TypeName(ms[n]), ms[n])

BuildRegistryFirstWins(ms) == RegistryFirstWins(ms, Len(ms))

\* The dict comprehension, evaluated left to right over the first n models.
RECURSIVE RegistryOfFirst(_, _)
RegistryOfFirst(ms, n) ==
    IF n = 0 THEN EmptyDict
    ELSE DictSet(RegistryOfFirst(ms, n - 1), TypeName(ms[n]), ms[n])

\* {model.__name__: model for model in models}
BuildRegistry(ms) == RegistryOfFirst(ms, Len(ms))

NoCheck(ms) == TRUE

\* assert len(models) > 0
AssertNonEmpty(ms) == Len(ms) > 0

\* ------------------------------------------------------------ responses
Names == {"Weather", "Stock"}

\* A tool call: tool_call.function.name and tool_call.function.arguments.
ToolCall(n, a) == [name |-> n, arguments |-> a]

SeqsUpTo(S, n) == UNION {[1..k -> S] : k \in 0..n}

\* response.choices[0].message: its tool_calls is a list, or None.
Message(calls) == [has_calls |-> TRUE, calls |-> calls]
NoToolCalls == [has_calls |-> FALSE, calls |-> <<>>]

Modes == {"PARALLEL_TOOLS", "TOOLS"}

\* The list read back to front.
tool_calls_reversed(gen) ==
    [i \in 1..Len(gen.response.calls) |->
        gen.response.calls[Len(gen.response.calls) + 1 - i]]

\* response.choices[0].message.tool_calls, as the for loop of this generator
\* sees it: the list the response holds.
tool_calls(gen) == gen.response.calls

\* ------------------------------------------------------------ generators
VARIABLES
    ctor,       \* ParallelBase(*models): "none" (not called), "ok", or the error raised
    args,       \* the models passed to ParallelBase(*models)
    models,     \* self.models
    registry,   \* self.registry
    gens,       \* the generator objects from_response has returned, by slot
    typehint,   \* the typehint handed to get_types_array and its callers
    extracted,  \* what get_types_array returned or raised
    tools       \* what handle_parallel_model returned

vars == <<ctor, args, models, registry, gens, typehint, extracted, tools>>

GenIds == {"g1", "g2"}

\* A slot from_response has not been called for.  Of a generator: st is
\* "created" (not started), "suspended" (at the yield) or "closed"; pos is the
\* list iterator's position; yielded, err, errKey and last are what the
\* consumer has got from it; the rest is bookkeeping for the properties:
\* given is the response as it was handed over, requested counts next()
\* calls, errAt is the next() that raised, closedAt the next() that finished
\* the generator, reads and lookups count the calls
\* read and the registry lookups, vlog lists the validations attempted.
NoGen ==
    [st |-> "none", response |-> NoToolCalls, given |-> NoToolCalls, mode |-> "PARALLEL_TOOLS",
     strict |-> "None", pos |-> 0, yielded |-> <<>>, err |-> "none",
     errKey |-> "", errAt |-> 0, closedAt |-> 0, requested |-> 0, reads |-> 0, lookups |-> 0,
     vlog |-> <<>>, last |-> "none"]

\* Calling from_response runs none of its body: it returns a generator
\* object that has not started.
from_response(response, mode, strict) ==
    [NoGen EXCEPT !.st = "created", !.response = response,
                  !.given = response, !.mode = mode,
                  !.strict = strict]

AssertAnyMode(mode) == TRUE

\* assert mode == Mode.PARALLEL_TOOLS
AssertMode(mode) == mode = "PARALLEL_TOOLS"

\* A lookup that falls back to some registered model for an unknown name.
LookupWithDefault(reg, name) ==
    [found |-> TRUE,
     model |-> IF name \in DOMAIN reg THEN reg[name]
               ELSE reg[CHOOSE k \in DOMAIN reg : TRUE]]

\* self.registry[name]: the model, or KeyError(name).
Lookup(reg, name) ==
    IF name \in DOMAIN reg
    THEN [found |-> TRUE, model |-> reg[name]]
    ELSE [found |-> FALSE, model |-> "KeyError"]

\* self.registry.pop(name) would remove the entry it reads.
RegistryAfterPop(reg, name) == [k \in DOMAIN reg \ {name} |-> reg[k]]

\* The registry after self.registry[name]: a subscript read leaves the
\* dict as it was.
RegistryAfterLookup(reg, name) == reg

\* The generator raises e: it is finished, and the consumer's next() raises e.
Raise(gen, e, key) ==
    [gen EXCEPT !.st = "closed", !.err = e, !.errKey = key,
                !.errAt = gen.requested, !.closedAt = gen.requested,
                !.last = "raise"]

\* The generator yields value and is suspended at the yield.
Yield(gen, value) ==
    [gen EXCEPT !.st = "suspended", !.yielded = Append(@, value),
                !.last = "yield"]

\* The generator is finished (the loop ended, or next() on a finished
\* generator): the consumer's next() raises StopIteration.
Return(gen) ==
    [gen EXCEPT !.st = "closed", !.last = "StopIteration",
                !.closedAt = IF gen.st = "closed" THEN @ ELSE gen.requested]

\* The loop body for the call at the iterator's position: read the name and
\* the arguments, look the name up, validate, yield.
ProcessCall(gen, reg) ==
    LET tool_call == tool_calls(gen)[gen.pos + 1]
        name == tool_call.name
        arguments == tool_call.arguments
        found == Lookup(reg, name)
        g1 == [gen EXCEPT !.pos = @ + 1, !.reads = @ + 1, !.lookups = @ + 1]
        g2 == [g1 EXCEPT !.vlog = Append(@, [idx |-> gen.pos + 1,
                                             type |-> found.model])]
        v == model_validate_json(found.model, arguments, gen.strict)
    IN  [gen |-> IF ~found.found THEN Raise(g1, "KeyError", name)
                 ELSE IF v.ok THEN Yield(g2, v.value)
                 ELSE Raise(g2, "ValidationError", found.model),
         registry |-> RegistryAfterLookup(reg, name)]

\* A loop that has already read and looked up the following call when it
\* hands an instance over.
LoopStepReadAhead(gen, reg) ==
    IF gen.pos >= Len(tool_calls(gen))
    THEN [gen |-> Return(gen), registry |-> reg]
    ELSE LET r == ProcessCall(gen, reg) IN
         IF r.gen.st = "suspended" /\ r.gen.pos < Len(tool_calls(gen))
         THEN [r EXCEPT !.gen.reads = @ + 1, !.gen.lookups = @ + 1]
         ELSE r

\* for tool_call in ...: the loop ends when the list is used up, else its
\* body runs once, up to the yield.
LoopStep(gen, reg) ==
    IF gen.pos >= Len(tool_calls(gen))
    THEN [gen |-> Return(gen), registry |-> reg]
    ELSE ProcessCall(gen, reg)

\* next(generator): the generator and the registry after it.
Resume(gen0, reg) ==
    LET gen == [gen0 EXCEPT !.requested = @ + 1] IN
    CASE gen.st = "closed" -> [gen |-> Return(gen), registry |-> reg]
      [] gen.st = "created" /\ ~AssertMode(gen.mode) ->
            [gen |-> Raise(gen, "AssertionError", "Mode must be PARALLEL_TOOLS"),
             registry |-> reg]
      [] gen.st = "created" /\ AssertMode(gen.mode) /\ ~gen.response.has_calls ->
            \* for ... in None
            [gen |-> Raise(gen, "TypeError", "NoneType"), registry |-> reg]
      [] OTHER -> LoopStep(gen, reg)

\* ------------------------------------------------------------ typehints
\* A typehint as written: shape is "Iterable" (Iterable[X]), "List" (List[X]),
\* "BareIterable" (Iterable with no argument) or "Class" (a model class, not
\* a generic).  X is written as a class ("Class"), as Union[T1, ..., Tn]
\* ("Union") or as T1 | ... | Tn ("Pipe"); members are its classes in order.
Written(syntax, members) == [syntax |-> syntax, members |-> members]
Hint(shape, x) == [shape |-> shape, x |-> x]

\* A class object.
ClassObject(t) == [origin |-> "None", cls |-> t, args |-> <<>>]

\* The object the typing module builds for a written X: Union[T] is T
\* itself, a union of several members keeps them in order.
TypeObject(x) ==
    CASE x.syntax = "Class" -> ClassObject(x.members[1])
      [] x.syntax = "Union" /\ Len(x.members) = 1 -> ClassObject(x.members[1])
      [] x.syntax = "Union" /\ Len(x.members) > 1 ->
            [origin |-> "Union", cls |-> "",
             args |-> [i \in 1..Len(x.members) |-> ClassObject(x.members[i])]]
      [] x.syntax = "Pipe" ->
            [origin |-> "UnionType", cls |-> "",
             args |-> [i \in 1..Len(x.members) |-> ClassObject(x.members[i])]]

\* The object a written typehint evaluates to.
HintObject(h) ==
    CASE h.shape = "Iterable" ->
            [origin |-> "Iterable", cls |-> "", args |-> <<TypeObject(h.x)>>]
      [] h.shape = "List" ->
            [origin |-> "list", cls |-> "", args |-> <<TypeObject(h.x)>>]
      [] h.shape = "BareIterable" ->
            [origin |-> "Iterable", cls |-> "", args |-> <<>>]
      [] h.shape = "Class" -> ClassObject(h.x.members[1])

get_origin(tp) == tp.origin
get_args(tp) == tp.args

Returned(value) == [ok |-> TRUE, error |-> "none", value |-> value]
Raised(error) == [ok |-> FALSE, error |-> error, value |-> <<>>]

\* get_types_array(typehint) on the object tp.
get_types_array(tp) ==
    IF get_origin(tp) # "Iterable" THEN Raised("TypeError")
    ELSE IF Len(get_args(tp)) = 0
         THEN Raised("IndexError")              \* get_args(typehint)[0] of ()
    ELSE IF get_origin(get_args(tp)[1]) = "Union"
         THEN Returned(get_args(get_args(tp)[1]))
    ELSE IF get_origin(get_args(tp)[1]) = "UnionType"
         THEN Returned(get_args(get_args(tp)[1]))
    ELSE Returned(get_args(tp))

\* The classes of a tuple of class objects.
ClassesOf(the_types) == [i \in 1..Len(the_types) |-> the_types[i].cls]

\* openai_schema(model).openai_schema
openai_schema(model) == [name |-> TypeName(model), model |-> model]

\* handle_parallel_model(typehint)
handle_parallel_model(tp) ==
    LET the_types == get_types_array(tp) IN
    IF ~the_types.ok THEN the_types
    ELSE Returned([i \in 1..Len(the_types.value) |->
                     [type |-> "function",
                      function |-> openai_schema(the_types.value[i].cls)]])

\* --------------------------------------------------------------- inputs
Calls == {ToolCall(n, a) : n \in Names, a \in Payloads}
Responses == {Message(cs) : cs \in SeqsUpTo(Calls, MaxCalls)} \cup {NoToolCalls}
ModelTuples == SeqsUpTo(CandidateTypes, MaxModels)

\* The inputs of the runs with two generators.
ConcCalls == {ToolCall("Weather", "{city}"), ToolCall("Stock", "{qty:'5'}")}
ConcResponses == {Message(cs) : cs \in SeqsUpTo(ConcCalls, MaxCalls)} \cup {NoToolCalls}
ConcModelTuples == {<<"WeatherA">>, <<"WeatherB", "Stock">>, <<"WeatherB", "WeatherA">>}

NoHint == Hint("none", Written("none", <<>>))

\* Sequences of pairwise distinct classes, lo..hi long.
DistinctSeqs(lo, hi) ==
    {ms \in SeqsUpTo(CandidateTypes, hi) :
        /\ Len(ms) >= lo
        /\ \A i, j \in 1..Len(ms) : i # j => ms[i] # ms[j]}

WrittenArgs ==
    {Written("Class", <<t>>) : t \in CandidateTypes}
    \cup {Written("Union", ms) : ms \in DistinctSeqs(1, MaxUnion)}
    \cup {Written("Pipe", ms) : ms \in DistinctSeqs(2, MaxUnion)}

Typehints ==
    {Hint("Iterable", x) : x \in WrittenArgs}
    \cup {Hint("List", x) : x \in WrittenArgs}
    \cup {Hint("BareIterable", Written("none", <<>>))}
    \cup {Hint("Class", Written("Class", <<t>>)) : t \in CandidateTypes}
NotExtracted == [ok |-> FALSE, error |-> "none", value |-> <<>>]

\* -------------------------------------------------------------- actions
\* ParallelBase(*ms)
Construct(ms) ==
    /\ ctor = "none"
    /\ args' = ms
    /\ IF AssertNonEmpty(ms)
       THEN /\ models' = ms
            /\ registry' = BuildRegistry(ms)
            /\ ctor' = "ok"
       ELSE /\ ctor' = "AssertionError"
            /\ UNCHANGED <<models, registry>>
    /\ UNCHANGED <<gens, typehint, extracted, tools>>

\* gens[g] = self.from_response(response, mode, strict=strict), for some
\* response of responses, some mode and some strict of stricts.
Decode(g, responses, stricts) ==
    /\ ctor = "ok"
    /\ gens[g].st = "none"
    /\ \E response \in responses, mode \in Modes, strict \in stricts :
          gens' = [gens EXCEPT ![g] = from_response(response, mode, strict)]
    /\ UNCHANGED <<ctor, args, models, registry, typehint, extracted, tools>>

\* next(gens[g])
GenNext(g) ==
    /\ gens[g].st # "none"
    /\ gens[g].st = "closed" => gens[g].requested < gens[g].closedAt + MaxAfterClose
    /\ LET r == Resume(gens[g], registry) IN
          /\ gens' = [gens EXCEPT ![g] = r.gen]
          /\ registry' = r.registry
    /\ UNCHANGED <<ctor, args, models, typehint, extracted, tools>>

\* The consumer lets go of the generator in slot g (drained or not).
Drop(g) ==
    /\ gens[g].st # "none"
    /\ gens' = [gens EXCEPT ![g] = NoGen]
    /\ UNCHANGED <<ctor, args, models, registry, typehint, extracted, tools>>

\* extracted = get_types_array(typehint)
GetTypesArray ==
    /\ extracted = NotExtracted
    /\ extracted' = get_types_array(HintObject(typehint))
    /\ UNCHANGED <<ctor, args, models, registry, gens, typehint, tools>>

\* tools = handle_parallel_model(typehint)
HandleParallelModel ==
    /\ tools = NotExtracted
    /\ tools' = handle_parallel_model(HintObject(typehint))
    /\ UNCHANGED <<ctor, args, models, registry, gens, typehint, extracted>>

\* ParallelModel(typehint): ParallelBase(*get_types_array(typehint)); an
\* error of get_types_array is the error of ParallelModel.
ParallelModel ==
    /\ ctor = "none"
    /\ LET the_types == get_types_array(HintObject(typehint)) IN
       IF the_types.ok
       THEN Construct(ClassesOf(the_types.value))
       ELSE /\ ctor' = the_types.error
            /\ UNCHANGED <<args, models, registry, gens, typehint, extracted, tools>>

InitDecode ==
    /\ ctor = "none"
    /\ args = <<>>
    /\ models = <<>>
    /\ registry = EmptyDict
    /\ gens = [g \in GenIds |-> NoGen]
    /\ typehint = NoHint
    /\ extracted = NotExtracted
    /\ tools = NotExtracted

\* One registry, one decode invocation at a time.
Init == InitDecode

Next ==
    \/ \E ms \in ModelTuples : Construct(ms)
    \/ Decode("g1", Responses, StrictValues)
    \/ GenNext("g1")
    \/ Drop("g1")

Spec == Init /\ [][Next]_vars

\* One registry, two decode invocations whose next() calls interleave.
InitConc == InitDecode

NextConc ==
    \/ \E ms \in ConcModelTuples : Construct(ms)
    \/ \E g \in GenIds : Decode(g, ConcResponses, {"None"})
    \/ \E g \in GenIds : GenNext(g)
    \/ \E g \in GenIds : Drop(g)

SpecConc == InitConc /\ [][NextConc]_vars

\* The type-set extractor and the two functions built on it, on one typehint.
InitTypes ==
    /\ ctor = "none"
    /\ args = <<>>
    /\ models = <<>>
    /\ registry = EmptyDict
    /\ gens = [g \in GenIds |-> NoGen]
    /\ typehint \in Typehints
    /\ extracted = NotExtracted
    /\ tools = NotExtracted

NextTypes ==
    \/ GetTypesArray
    \/ HandleParallelModel
    \/ ParallelModel

SpecTypes == InitTypes /\ [][NextTypes]_vars

\* ----------------------------------------------------------- properties
Min(a, b) == IF a <= b THEN a ELSE b

Live(g) == gens[g].st # "none"

\* The call's name is a key of reg, and its payload passes the validation of
\* the model reg gives for it.
Known(reg, call) == call.name \in DOMAIN reg
Valid(reg, call, strict) ==
    Known(reg, call) /\ Accepts(reg[call.name], call.arguments, strict)

\* The instance the call decodes to under reg.
Decoded(reg, call) == Instance(reg[call.name], call.arguments)

\* The first call of the list that is unknown or invalid; Len + 1 if none is.
FirstBad(reg, calls, strict) ==
    LET bad == {i \in 1..Len(calls) : ~Valid(reg, calls[i], strict)}
    IN  IF bad = {} THEN Len(calls) + 1
        ELSE CHOOSE i \in bad : \A j \in bad : i <= j

\* The first call of the list whose name is unknown; 0 if every name is known.
FirstUnknown(reg, calls) ==
    LET unk == {i \in 1..Len(calls) : ~Known(reg, calls[i])}
    IN  IF unk = {} THEN 0 ELSE CHOOSE i \in unk : \A j \in unk : i <= j

\* A generator whose mode is the parallel-calls mode and whose response has
\* a call list.
Decodable(gen) ==
    gen.st # "none" /\ gen.mode = "PARALLEL_TOOLS" /\ gen.response.has_calls

\* C1: with the parallel-calls mode and a response of n calls that are all
\* known and valid, the consumer has received, after k requests, the
\* instances of the first min(k, n) calls, the i-th being the i-th call's
\* payload validated against registry[its name]; no request raises; the
\* (n+1)-th request ends the sequence, and so does every request after it.
C1_DrainYieldsEveryCallInOrder ==
    \A g \in GenIds :
        LET gen == gens[g]
            calls == gen.response.calls
            n == Len(calls)
        IN  (Decodable(gen) /\ \A i \in 1..n : Valid(registry, calls[i], gen.strict))
            => /\ gen.err = "none"
               /\ Len(gen.yielded) = Min(gen.requested, n)
               /\ \A i \in 1..Len(gen.yielded) :
                     gen.yielded[i] = Decoded(registry, calls[i])
               /\ (gen.requested > n => gen.st = "closed" /\ gen.last = "StopIteration")
               /\ (gen.requested \in 1..n => gen.st = "suspended" /\ gen.last = "yield")

\* A response of two different valid calls, drained, and asked once more.
C1_Witness ==
    \E g \in GenIds :
        LET gen == gens[g]
            calls == gen.response.calls
        IN  /\ Decodable(gen)
            /\ Len(calls) >= 2
            /\ calls[1] # calls[2]
            /\ \A i \in 1..Len(calls) : Valid(registry, calls[i], gen.strict)
            /\ gen.requested = Len(calls) + 2
            /\ Len(gen.yielded) = Len(calls)
            /\ gen.st = "closed"

\* What C2 says of generator gen whose first unknown call is the i-th: the
\* i-th request, and no earlier one, raises KeyError naming the key, after
\* i-1 instances; the unknown call is validated against nothing, and no call
\* after it is read, validated or yielded.
UnknownNameOutcome(gen, i) ==
    LET calls == gen.response.calls IN
    /\ gen.requested < i => gen.err = "none"
    /\ gen.requested >= i =>
          /\ gen.err = "KeyError"
          /\ gen.errKey = calls[i].name
          /\ gen.errAt = i
          /\ gen.st = "closed"
          /\ Len(gen.yielded) = i - 1
          /\ \A j \in 1..(i - 1) : gen.yielded[j] = Decoded(registry, calls[j])
    /\ \A k \in 1..Len(gen.vlog) : gen.vlog[k].idx < i
    /\ gen.reads <= i
    /\ gen.pos <= i

\* C2 as stated: whenever the i-th call is the first whose name is not a key
\* of the registry, the i-th request raises KeyError after i-1 instances.
C2_Original_FirstUnknownRaisesAtItsRequest ==
    \A g \in GenIds :
        LET gen == gens[g]
            i == FirstUnknown(registry, gen.response.calls)
        IN  (Decodable(gen) /\ i > 0) => UnknownNameOutcome(gen, i)

\* C2, amended: the same, provided the payloads of the i-1 calls before the
\* unknown one all pass validation.
C2_FirstUnknownRaisesAfterValidCalls ==
    \A g \in GenIds :
        LET gen == gens[g]
            calls == gen.response.calls
            i == FirstUnknown(registry, calls)
        IN  (/\ Decodable(gen)
             /\ i > 0
             /\ \A j \in 1..(i - 1) : Valid(registry, calls[j], gen.strict))
            => UnknownNameOutcome(gen, i)

\* An unknown second call after a valid first one, with a third request made.
C2_Witness ==
    \E g \in GenIds :
        LET gen == gens[g]
            calls == gen.response.calls
        IN  /\ Decodable(gen)
            /\ FirstUnknown(registry, calls) = 2
            /\ Valid(registry, calls[1], gen.strict)
            /\ gen.err = "KeyError"
            /\ Len(gen.yielded) = 1
            /\ gen.requested = 3

\* C3: a validation that fails raises ValidationError at the request that
\* reached the call: it is the last thing the generator does (no instance for
\* the call, no retry, no later call read), it was attempted once, and the
\* instances of the earlier calls are the consumer's, then and after any
\* further request.  And the decoder does reach it: when the first call that
\* is not valid is a known one, the request of that position raises.
C3_InvalidPayloadRaisesOnceAndAborts ==
    \A g \in GenIds :
        LET gen == gens[g]
            calls == gen.response.calls
            fb == FirstBad(registry, calls, gen.strict)
        IN  /\ \A k \in 1..Len(gen.vlog) :
                 LET e == gen.vlog[k] IN
                 ~Accepts(e.type, calls[e.idx].arguments, gen.strict)
                 => /\ gen.err = "ValidationError"
                    /\ gen.errKey = e.type
                    /\ gen.errAt = e.idx
                    /\ gen.st = "closed"
                    /\ k = Len(gen.vlog)
                    /\ \A k2 \in 1..Len(gen.vlog) : k2 # k => gen.vlog[k2].idx # e.idx
                    /\ gen.pos = e.idx
                    /\ gen.reads = e.idx
                    /\ gen.lookups = e.idx
                    /\ Len(gen.yielded) = e.idx - 1
                    /\ \A j \in 1..(e.idx - 1) :
                          gen.yielded[j] = Decoded(registry, calls[j])
            /\ (/\ Decodable(gen)
                /\ fb <= Len(calls)
                /\ Known(registry, calls[fb])
                /\ gen.requested >= fb)
               => /\ gen.err = "ValidationError"
                  /\ gen.vlog # <<>>
                  /\ gen.vlog[Len(gen.vlog)].idx = fb

\* An invalid second call after a valid first one, with a call after it, and
\* a request made after the error.
C3_Witness ==
    \E g \in GenIds :
        LET gen == gens[g]
            calls == gen.response.calls
        IN  /\ Decodable(gen)
            /\ Len(calls) >= 3
            /\ gen.err = "ValidationError"
            /\ gen.errAt = 2
            /\ Len(gen.yielded) = 1
            /\ gen.requested >= 3
            /\ gen.last = "StopIteration"

\* C4: a generator made with another mode than the parallel-calls mode never
\* reads, looks up or validates a call and never yields, whatever its
\* response; its first request raises the assertion's error, and that error
\* is its only outcome.
C4_WrongModeTouchesNoCall ==
    \A g \in GenIds :
        LET gen == gens[g] IN
        (gen.st # "none" /\ gen.mode # "PARALLEL_TOOLS")
        => /\ gen.reads = 0
           /\ gen.lookups = 0
           /\ gen.pos = 0
           /\ gen.vlog = <<>>
           /\ gen.yielded = <<>>
           /\ gen.last # "yield"
           /\ gen.err \in {"none", "AssertionError"}
           /\ gen.requested >= 1 =>
                 gen.err = "AssertionError" /\ gen.errAt = 1 /\ gen.st = "closed"

\* Another mode, a response with no call list, and the error raised.
C4_Witness ==
    \E g \in GenIds :
        LET gen == gens[g] IN
        /\ gen.st = "closed"
        /\ gen.mode # "PARALLEL_TOOLS"
        /\ ~gen.response.has_calls
        /\ gen.err = "AssertionError"

\* C5: no generator object exists for another mode than the parallel-calls
\* mode with the mode error still to come: the call of from_response itself
\* raises it.
C5_ModeErrorRaisedByTheCall ==
    \A g \in GenIds :
        ~(gens[g].st = "created" /\ gens[g].mode # "PARALLEL_TOOLS")

\* C6: the calls read, looked up and validated are never more than the
\* elements requested, every validation is of a call within the requested
\* ones, and while the requests made stop short of the first unknown or
\* invalid call no error has been raised.
C6_LazyCallByCall ==
    \A g \in GenIds :
        LET gen == gens[g]
            calls == gen.response.calls
        IN  Live(g)
            => /\ gen.reads <= gen.requested
               /\ gen.lookups <= gen.requested
               /\ gen.pos <= gen.requested
               /\ Len(gen.vlog) <= gen.requested
               /\ \A k \in 1..Len(gen.vlog) : gen.vlog[k].idx <= gen.requested
               /\ (Decodable(gen)
                   /\ gen.requested < FirstBad(registry, calls, gen.strict))
                  => gen.err = "none"

\* One element taken of a response whose second call is unknown or invalid.
C6_Witness ==
    \E g \in GenIds :
        LET gen == gens[g]
            calls == gen.response.calls
        IN  /\ Decodable(gen)
            /\ Len(calls) >= 2
            /\ FirstBad(registry, calls, gen.strict) = 2
            /\ gen.requested = 1
            /\ Len(gen.yielded) = 1
            /\ gen.st = "suspended"
            /\ gen.err = "none"

\* The names of the models ms are pairwise distinct.
DistinctNames(ms) ==
    \A i, j \in 1..Len(ms) : i # j => TypeName(ms[i]) # TypeName(ms[j])

\* C7: ParallelBase() with no model raises the assertion's error and leaves
\* no registry (no models, no mapping, and so no decode); with k >= 1 models
\* of pairwise distinct names it succeeds, models is the tuple supplied, and
\* the mapping has k entries, each name mapped to the model that declares it.
C7_ConstructionEmptyOrDistinct ==
    /\ (ctor # "none" /\ Len(args) = 0)
       => /\ ctor = "AssertionError"
          /\ models = <<>>
          /\ registry = EmptyDict
          /\ \A g \in GenIds : ~Live(g)
    /\ (ctor # "none" /\ Len(args) >= 1 /\ DistinctNames(args))
       => /\ ctor = "ok"
          /\ models = args
          /\ Cardinality(DOMAIN registry) = Len(args)
          /\ \A i \in 1..Len(args) :
                /\ TypeName(args[i]) \in DOMAIN registry
                /\ registry[TypeName(args[i])] = args[i]

\* A registry built of two models of different names.
C7_Witness ==
    /\ ctor = "ok"
    /\ Len(args) = 2
    /\ DistinctNames(args)
    /\ Cardinality(DOMAIN registry) = 2

\* The last of the models ms that declares the name.
LastNamed(ms, name) ==
    ms[CHOOSE i \in 1..Len(ms) :
          /\ TypeName(ms[i]) = name
          /\ \A j \in 1..Len(ms) : TypeName(ms[j]) = name => j <= i]

\* C9: when two of the supplied models declare the same name, construction
\* succeeds, models holds every supplied model, the mapping has fewer entries
\* than models were supplied, every name maps to the last model declaring
\* it, and every call of a decode is validated against the last model that
\* declares its name.
C9_DuplicateNameLastWins ==
    (ctor # "none" /\ Len(args) >= 1 /\ ~DistinctNames(args))
    => /\ ctor = "ok"
       /\ models = args
       /\ Cardinality(DOMAIN registry) < Len(args)
       /\ \A i \in 1..Len(args) :
             /\ TypeName(args[i]) \in DOMAIN registry
             /\ registry[TypeName(args[i])] = LastNamed(args, TypeName(args[i]))
       /\ \A g \in GenIds : \A k \in 1..Len(gens[g].vlog) :
             LET e == gens[g].vlog[k]
                 call == gens[g].response.calls[e.idx]
             IN  e.type = LastNamed(args, call.name)

\* Two different models of one name, and a call of that name with a payload
\* only the later one accepts, decoded.
C9_Witness ==
    /\ ctor = "ok"
    /\ Len(args) = 2
    /\ args[1] # args[2]
    /\ TypeName(args[1]) = TypeName(args[2])
    /\ \E g \in GenIds :
          /\ gens[g].yielded # <<>>
          /\ gens[g].yielded[1].type = args[2]
          /\ ~Accepts(args[1], gens[g].yielded[1].data, gens[g].strict)

\* What a decode of response under reg gives a consumer that makes k
\* requests and no other decode runs: the instances received, and the error
\* raised with the request that raised it.
Alone(response, mode, strict, reg, k) ==
    LET calls == response.calls
        fb == FirstBad(reg, calls, strict)
        none == [yielded |-> <<>>, err |-> "none", errAt |-> 0]
    IN  CASE k = 0 -> none
          [] k > 0 /\ mode # "PARALLEL_TOOLS" ->
                [none EXCEPT !.err = "AssertionError", !.errAt = 1]
          [] k > 0 /\ mode = "PARALLEL_TOOLS" /\ ~response.has_calls ->
                [none EXCEPT !.err = "TypeError", !.errAt = 1]
          [] OTHER ->
                [yielded |-> [i \in 1..Min(k, fb - 1) |-> Decoded(reg, calls[i])],
                 err |-> IF k < fb \/ fb > Len(calls) THEN "none"
                         ELSE IF Known(reg, calls[fb]) THEN "ValidationError"
                         ELSE "KeyError",
                 errAt |-> IF k < fb \/ fb > Len(calls) THEN 0 ELSE fb]

\* C10: however the requests of the decodes interleave and however each ends,
\* models and the mapping stay what construction made of the supplied models,
\* every response stays as it was handed over, and every decode has given
\* its consumer what it gives when run alone; so two decodes of equal
\* responses that have made as many requests have given equal results.
C10_DecodeReadsOnly ==
    /\ ctor = "ok" => models = args /\ registry = BuildRegistry(args)
    /\ \A g \in GenIds :
          LET gen == gens[g]
              alone == Alone(gen.given, gen.mode, gen.strict,
                             BuildRegistry(args), gen.requested)
          IN  Live(g)
              => /\ gen.response = gen.given
                 /\ gen.yielded = alone.yielded
                 /\ gen.err = alone.err
                 /\ gen.errAt = alone.errAt
    /\ \A g, h \in GenIds :
          (/\ Live(g) /\ Live(h)
           /\ gens[g].given = gens[h].given
           /\ gens[g].mode = gens[h].mode
           /\ gens[g].strict = gens[h].strict
           /\ gens[g].requested = gens[h].requested)
          => gens[g].yielded = gens[h].yielded /\ gens[g].err = gens[h].err

\* Two decodes of one two-call response, one drained and one part-way.
C10_Witness ==
    /\ Live("g1") /\ Live("g2")
    /\ gens["g1"].given = gens["g2"].given
    /\ Len(gens["g1"].given.calls) >= 2
    /\ gens["g1"].mode = "PARALLEL_TOOLS" /\ gens["g2"].mode = "PARALLEL_TOOLS"
    /\ Len(gens["g1"].yielded) = 2
    /\ gens["g1"].st = "closed"
    /\ Len(gens["g2"].yielded) = 1
    /\ gens["g2"].st = "suspended"

\* The classes a written X names, in order.
MemberObjects(x) == [i \in 1..Len(x.members) |-> ClassObject(x.members[i])]

\* C8's reference: TypeError unless the typehint is Iterable[X]; the members
\* of X in order when X is written as a union, in either syntax; the
\* one-element tuple (X) when X is a class.
Reference(h) ==
    IF h.shape # "Iterable" THEN Raised("TypeError")
    ELSE Returned(MemberObjects(h.x))

\* C8: get_types_array agrees with the reference on every typehint.
C8_AgreesWithReference ==
    extracted # NotExtracted => extracted = Reference(typehint)

\* get_types_array agrees with the reference on every typehint but the bare
\* Iterable.
ExtractorAgreesButOnBareIterable ==
    (extracted # NotExtracted /\ typehint.shape # "BareIterable")
    => extracted = Reference(typehint)

====
